---- MODULE Spec2Model ----
(***************************************************************************)
(* Model of the rgbd-grabber stereo demo (example/stereo_match.cpp: main)  *)
(* and of the UVCamera background-poll backend                             *)
(* (include/rgbd/camera/UVCamera.h).                                       *)
(*                                                                         *)
(* C strings are sequences of one-character strings, so that strncmp,      *)
(* strcmp and sscanf("%d") are computed the way libc computes them.        *)
(***************************************************************************)
EXTENDS Integers, Sequences, FiniteSets, TLC

(***************************************************************************)
(* Bounds of the model.                                                    *)
(***************************************************************************)
MaxArgs == 3
MaxFrames == 2
MaxPolls == 3
FrameLen == 2

(***************************************************************************)
(* String literals of main.                                                *)
(***************************************************************************)
algorithm_opt == <<"-","-","a","l","g","o","r","i","t","h","m","=">>
maxdisp_opt == <<"-","-","m","a","x","-","d","i","s","p","a","r","i","t","y","=">>
blocksize_opt == <<"-","-","b","l","o","c","k","s","i","z","e","=">>
nodisplay_opt == <<"-","-","n","o","-","d","i","s","p","l","a","y">>
scale_opt == <<"-","-","s","c","a","l","e","=">>
opt_i == <<"-","i">>
opt_e == <<"-","e">>
opt_o == <<"-","o">>
opt_p == <<"-","p">>
str_bm == <<"b","m">>
str_sgbm == <<"s","g","b","m">>
str_hh == <<"h","h">>
str_var == <<"v","a","r">>

\* the null pointer: no character sequence equals it
NULL == <<"NULL">>

STEREO_BM == 0
STEREO_SGBM == 1
STEREO_HH == 2
STEREO_VAR == 3

\* the escape key code tested by the frame loop
KEY_ESC == 27

\* channels of a CV_8UC3 image
CV_8UC3_channels == 3

(***************************************************************************)
(* libc helpers, computed as libc computes them.                           *)
(***************************************************************************)
\* strncmp(s, opt, strlen(opt)) == 0
strncmp_eq(s, opt) == Len(s) >= Len(opt) /\ SubSeq(s, 1, Len(opt)) = opt

\* strcmp(s, t) == 0
strcmp_eq(s, t) == s = t

\* s + strlen(opt)
SkipPrefix(s, opt) == SubSeq(s, Len(opt) + 1, Len(s))

DigitVal == ("0" :> 0) @@ ("1" :> 1) @@ ("2" :> 2) @@ ("3" :> 3) @@ ("4" :> 4) @@
            ("5" :> 5) @@ ("6" :> 6) @@ ("7" :> 7) @@ ("8" :> 8) @@ ("9" :> 9)

IsDigit(c) == c \in DOMAIN DigitVal

RECURSIVE SkipSpace(_)
SkipSpace(s) == IF s # <<>> /\ Head(s) = " " THEN SkipSpace(Tail(s)) ELSE s

RECURSIVE ScanDigits(_, _, _)
ScanDigits(s, acc, cnt) ==
    IF s # <<>> /\ IsDigit(Head(s))
    THEN ScanDigits(Tail(s), acc * 10 + DigitVal[Head(s)], cnt + 1)
    ELSE [v |-> acc, n |-> cnt]

\* sscanf(s, "%d", &x): ret is the return value, val the value stored in x
\* (meaningful only when ret = 1).  Leading blanks are skipped, one sign is
\* accepted, the conversion stops at the first non-digit.
sscanf_d(s) ==
    LET t == SkipSpace(s)
        signed == t # <<>> /\ Head(t) \in {"-", "+"}
        r == ScanDigits(IF signed THEN Tail(t) ELSE t, 0, 0)
    IN  IF r.n = 0
        THEN [ret |-> IF t = <<>> THEN -1 ELSE 0, val |-> 0]
        ELSE [ret |-> 1, val |-> IF signed /\ Head(t) = "-" THEN 0 - r.v ELSE r.v]

\* C's % (truncating towards zero)
CMod(a, b) == IF a >= 0 THEN a % b ELSE 0 - ((0 - a) % b)

\* x & -16 for a non-negative x
AndMinus16(x) == x - (x % 16)

(***************************************************************************)
(* Inputs: the command lines the demo is started with.                     *)
(***************************************************************************)
digits_64 == <<"6","4">>
digits_50 == <<"5","0">>
digits_9 == <<"9">>
digits_4 == <<"4">>
str_foo == <<"f","o","o">>
calib_yml == <<"c",".","y","m","l">>
intr_yml == <<"i","n","t","r",".","y","m","l">>
extr_yml == <<"e","x","t","r",".","y","m","l">>
left_image == <<"l","e","f","t",".","p","n","g">>
right_image == <<"r","i","g","h","t",".","p","n","g">>

Tokens ==
    { algorithm_opt \o str_bm, algorithm_opt \o str_foo,
      maxdisp_opt \o digits_64, maxdisp_opt \o digits_50,
      blocksize_opt \o digits_9, blocksize_opt \o digits_4,
      nodisplay_opt, opt_i, opt_e, opt_o, opt_p, calib_yml }

RECURSIVE ListsUpTo(_, _)
ListsUpTo(S, n) ==
    IF n = 0 THEN {<<>>}
    ELSE LET L == ListsUpTo(S, n - 1)
         IN  L \cup {Append(l, t) : l \in {m \in L : Len(m) = n - 1}, t \in S}

\* all command lines of at most MaxArgs arguments over Tokens
ShortArgLists == ListsUpTo(Tokens, MaxArgs)

Calibrated == <<opt_i, intr_yml, opt_e, extr_yml>>

\* longer command lines: the documented scenarios, every algorithm name,
\* malformed numbers, the --scale flag and the positional placeholders
LongArgLists ==
    { <<algorithm_opt \o str_sgbm, maxdisp_opt \o digits_64,
        blocksize_opt \o digits_9>> \o Calibrated }
    \cup { <<a>> \o Calibrated :
             a \in { algorithm_opt \o str_sgbm, algorithm_opt \o str_hh,
                     algorithm_opt \o str_var, algorithm_opt \o str_bm } }
    \cup { <<a, maxdisp_opt \o <<"3","2">>, blocksize_opt \o <<"5">>,
             maxdisp_opt \o <<"1","6">>>> \o Calibrated :
             a \in { algorithm_opt \o str_hh, algorithm_opt \o str_var,
                     algorithm_opt \o str_bm } }
    \cup { <<nodisplay_opt, maxdisp_opt \o v>> :
             v \in { <<"1","6","x">>, <<"-","1","6">>, <<"0">>, <<>>,
                     <<"x">>, <<" ","3","2">>, <<"+","4","8">> } }
    \cup { <<nodisplay_opt, blocksize_opt \o v>> :
             v \in { <<"7","x">>, <<"-","3">>, <<"0">>, <<>>, <<"x">> } }
    \cup { <<scale_opt \o <<"2">>, nodisplay_opt>>,
           <<nodisplay_opt, nodisplay_opt \o <<"x">>>>,
           <<opt_p, calib_yml>> \o Calibrated,
           Calibrated \o <<opt_p>>, Calibrated \o <<opt_o>> }
    \cup { <<left_image, right_image>> \o l : l \in ListsUpTo(Tokens, 1) }

ArgLists == ShortArgLists \cup LongArgLists

\* the frame widths the cameras may report
Widths == {320, 640}

(***************************************************************************)
(* State.                                                                  *)
(***************************************************************************)
VARIABLES
    args,                 \* argv[1 .. argc-1]
    pc,                   \* position of main
    i,                    \* loop index of the argument loop
    alg, numberOfDisparities, SADWindowSize, no_display,
    intrinsic_filename, extrinsic_filename,
    disparity_filename, point_cloud_filename,
    printed,              \* messages written to standard output
    exit_code,            \* value returned by main (when pc = "exit")
    left, right,          \* the two cameras: "none" or "started"
    img_width,            \* img_size.width
    fs_opened,            \* calibration files opened so far
    maps,                 \* map11, map12, map21, map22: "empty" or "computed"
    Q,                    \* reprojection matrix: "empty" or "computed"
    bm, sgbm, var,        \* the three matcher objects
    key, frames,          \* last key code, frames captured
    remap_maps,           \* maps handed to the remap calls of the frame loop
    reproject_Q,          \* Q handed to reprojectImageTo3D
    matched               \* matcher invoked on the last frame

mainvars == <<args, pc, i, alg, numberOfDisparities, SADWindowSize, no_display,
              intrinsic_filename, extrinsic_filename, disparity_filename,
              point_cloud_filename, printed, exit_code, left, right,
              img_width, fs_opened, maps, Q, bm, sgbm, var, key, frames,
              remap_maps, reproject_Q, matched>>

\* UVCamera: the fields of the class and the positions of its two threads
VARIABLES
    _capture,             \* cv::VideoCapture: "closed" or "opened"
    _buffer,              \* the protected frame buffer, FrameLen cells
    _mutex,               \* boost::mutex: "free" or the holder
    upc,                  \* position of the polling thread running update()
    frame,                \* frame read by update(), not yet stored
    polls,                \* frames delivered by the device so far
    cpc,                  \* position of the foreground captureColor call
    buffer,               \* the caller's buffer of captureColor
    cell                  \* cell index of the store / of the copy

uvvars == <<_capture, _buffer, _mutex, upc, frame, polls, cpc, buffer, cell>>

vars == <<mainvars, uvvars>>

argc == Len(args) + 1

\* argv[k] for 1 <= k <= argc; argv[argc] is the null pointer
argv(k) == IF k < argc THEN args[k] ELSE NULL

InitMain ==
    /\ pc = "start"
    /\ i = 0
    /\ alg = STEREO_SGBM
    /\ numberOfDisparities = 0
    /\ SADWindowSize = 0
    /\ no_display = FALSE
    /\ intrinsic_filename = NULL
    /\ extrinsic_filename = NULL
    /\ disparity_filename = NULL
    /\ point_cloud_filename = NULL
    /\ printed = <<>>
    /\ exit_code = 0
    /\ left = "none"
    /\ right = "none"
    /\ img_width = 0
    /\ fs_opened = 0
    /\ maps = "empty"
    /\ Q = "empty"
    /\ bm = [SADWindowSize |-> 0, numberOfDisparities |-> 0]
    /\ sgbm = [SADWindowSize |-> 0, numberOfDisparities |-> 0, P1 |-> 0,
               P2 |-> 0, fullDP |-> FALSE]
    /\ var = [minDisp |-> 0, maxDisp |-> 0]
    /\ key = 0
    /\ frames = 0
    /\ remap_maps = "unused"
    /\ reproject_Q = "unused"
    /\ matched = "none"

\* a frame is FrameLen cells; frame n of the device carries n in every cell
FrameOf(n) == [c \in 1 .. FrameLen |-> n]

InitUVCamera ==
    /\ _capture = "closed"
    /\ _buffer = FrameOf(0)
    /\ _mutex = "free"
    /\ upc = "idle"
    /\ frame = FrameOf(0)
    /\ polls = 0
    /\ cpc = "idle"
    /\ buffer = FrameOf(0)
    /\ cell = [update |-> 1, captureColor |-> 1]

Init ==
    /\ args \in ArgLists
    /\ InitMain
    /\ InitUVCamera

\* return <code> after printing msgs
Return(code, msgs) ==
    /\ pc' = "exit"
    /\ exit_code' = code
    /\ printed' = printed \o msgs

parsed == <<alg, numberOfDisparities, SADWindowSize, no_display,
            intrinsic_filename, extrinsic_filename, disparity_filename,
            point_cloud_filename>>

runtime == <<left, right, img_width, fs_opened, maps, Q, bm, sgbm, var, key,
             frames, remap_maps, reproject_Q, matched>>

(***************************************************************************)
(* main, lines 34-37: too few arguments print the help and return 0.       *)
(***************************************************************************)
CheckArgc ==
    /\ pc = "start"
    /\ IF argc < 3
       THEN Return(0, <<"help">>) /\ UNCHANGED i
       ELSE pc' = "loop" /\ i' = 1 /\ UNCHANGED <<exit_code, printed>>
    /\ UNCHANGED <<uvvars, args, parsed, runtime>>

(***************************************************************************)
(* The argument loop, lines 54-97: one action per branch.                  *)
(***************************************************************************)
InLoop == pc = "loop" /\ i < argc

IsAlgorithm(s) == strncmp_eq(s, algorithm_opt)
IsMaxDisp(s) == ~IsAlgorithm(s) /\ strncmp_eq(s, maxdisp_opt)
IsBlockSize(s) == ~IsAlgorithm(s) /\ ~IsMaxDisp(s) /\ strncmp_eq(s, blocksize_opt)
IsNamed(s) == IsAlgorithm(s) \/ IsMaxDisp(s) \/ IsBlockSize(s)

AlgOf(_alg) ==
    IF strcmp_eq(_alg, str_bm) THEN STEREO_BM
    ELSE IF strcmp_eq(_alg, str_sgbm) THEN STEREO_SGBM
    ELSE IF strcmp_eq(_alg, str_hh) THEN STEREO_HH
    ELSE IF strcmp_eq(_alg, str_var) THEN STEREO_VAR
    ELSE -1

ParseAlgorithm ==
    /\ InLoop
    /\ IsAlgorithm(argv(i))
    /\ alg' = AlgOf(SkipPrefix(argv(i), algorithm_opt))
    /\ IF alg' < 0
       THEN Return(-1, <<"unknown stereo algorithm", "help">>) /\ UNCHANGED i
       ELSE i' = i + 1 /\ UNCHANGED <<pc, exit_code, printed>>
    /\ UNCHANGED <<uvvars, args, numberOfDisparities, SADWindowSize, no_display,
                   intrinsic_filename, extrinsic_filename, disparity_filename,
                   point_cloud_filename, runtime>>

ParseMaxDisparity ==
    /\ InLoop
    /\ IsMaxDisp(argv(i))
    /\ LET r == sscanf_d(SkipPrefix(argv(i), maxdisp_opt))
       IN  /\ numberOfDisparities' = IF r.ret = 1 THEN r.val ELSE numberOfDisparities
           /\ IF r.ret # 1 \/ numberOfDisparities' < 1
                 \/ CMod(numberOfDisparities', 16) # 0
              THEN Return(-1, <<"max disparity must be a positive integer divisible by 16",
                                "help">>) /\ UNCHANGED i
              ELSE i' = i + 1 /\ UNCHANGED <<pc, exit_code, printed>>
    /\ UNCHANGED <<uvvars, args, alg, SADWindowSize, no_display,
                   intrinsic_filename, extrinsic_filename, disparity_filename,
                   point_cloud_filename, runtime>>

ParseBlockSize ==
    /\ InLoop
    /\ IsBlockSize(argv(i))
    /\ LET r == sscanf_d(SkipPrefix(argv(i), blocksize_opt))
       IN  /\ SADWindowSize' = IF r.ret = 1 THEN r.val ELSE SADWindowSize
           /\ IF r.ret # 1 \/ SADWindowSize' < 1 \/ CMod(SADWindowSize', 2) # 1
              THEN Return(-1, <<"block size must be a positive odd number">>)
                   /\ UNCHANGED i
              ELSE i' = i + 1 /\ UNCHANGED <<pc, exit_code, printed>>
    /\ UNCHANGED <<uvvars, args, alg, numberOfDisparities, no_display,
                   intrinsic_filename, extrinsic_filename, disparity_filename,
                   point_cloud_filename, runtime>>

ParseNoDisplay ==
    /\ InLoop
    /\ ~IsNamed(argv(i))
    /\ strcmp_eq(argv(i), nodisplay_opt)
    /\ no_display' = TRUE
    /\ i' = i + 1
    /\ UNCHANGED <<uvvars, args, pc, exit_code, printed, alg, numberOfDisparities,
                   SADWindowSize, intrinsic_filename, extrinsic_filename,
                   disparity_filename, point_cloud_filename, runtime>>

\* the branches "-i", "-e", "-o", "-p": the value is argv[++i]
IsValueFlag(s, flag) ==
    /\ ~IsNamed(s)
    /\ ~strcmp_eq(s, nodisplay_opt)
    /\ strcmp_eq(s, flag)

ParseIntrinsic ==
    /\ InLoop
    /\ IsValueFlag(argv(i), opt_i)
    /\ intrinsic_filename' = argv(i + 1)
    /\ i' = i + 2
    /\ UNCHANGED <<uvvars, args, pc, exit_code, printed, alg, numberOfDisparities,
                   SADWindowSize, no_display, extrinsic_filename,
                   disparity_filename, point_cloud_filename, runtime>>

ParseExtrinsic ==
    /\ InLoop
    /\ IsValueFlag(argv(i), opt_e)
    /\ extrinsic_filename' = argv(i + 1)
    /\ i' = i + 2
    /\ UNCHANGED <<uvvars, args, pc, exit_code, printed, alg, numberOfDisparities,
                   SADWindowSize, no_display, intrinsic_filename,
                   disparity_filename, point_cloud_filename, runtime>>

ParseDisparityFile ==
    /\ InLoop
    /\ IsValueFlag(argv(i), opt_o)
    /\ disparity_filename' = argv(i + 1)
    /\ i' = i + 2
    /\ UNCHANGED <<uvvars, args, pc, exit_code, printed, alg, numberOfDisparities,
                   SADWindowSize, no_display, intrinsic_filename,
                   extrinsic_filename, point_cloud_filename, runtime>>

ParsePointCloudFile ==
    /\ InLoop
    /\ IsValueFlag(argv(i), opt_p)
    /\ point_cloud_filename' = argv(i + 1)
    /\ i' = i + 2
    /\ UNCHANGED <<uvvars, args, pc, exit_code, printed, alg, numberOfDisparities,
                   SADWindowSize, no_display, intrinsic_filename,
                   extrinsic_filename, disparity_filename, runtime>>

ParseUnknown ==
    /\ InLoop
    /\ ~IsNamed(argv(i))
    /\ ~strcmp_eq(argv(i), nodisplay_opt)
    /\ \A flag \in {opt_i, opt_e, opt_o, opt_p} : ~strcmp_eq(argv(i), flag)
    /\ Return(-1, <<"unknown option">>)
    /\ UNCHANGED <<uvvars, args, i, parsed, runtime>>

\* the loop condition i < argc fails
LoopDone ==
    /\ pc = "loop"
    /\ ~(i < argc)
    /\ pc' = "check_calib"
    /\ UNCHANGED <<uvvars, args, i, exit_code, printed, parsed, runtime>>

(***************************************************************************)
(* Lines 99-107: the calibration flags must come in pairs, and the point   *)
(* cloud needs them.                                                       *)
(***************************************************************************)
CheckCalibFlags ==
    /\ pc = "check_calib"
    /\ IF (intrinsic_filename # NULL) # (extrinsic_filename # NULL)
       THEN Return(-1, <<"either both intrinsic and extrinsic parameters or none">>)
       ELSE pc' = "check_pcl" /\ UNCHANGED <<exit_code, printed>>
    /\ UNCHANGED <<uvvars, args, i, parsed, runtime>>

CheckPointCloud ==
    /\ pc = "check_pcl"
    /\ IF extrinsic_filename = NULL /\ point_cloud_filename # NULL
       THEN Return(-1, <<"extrinsic and intrinsic parameters needed for the point cloud">>)
       ELSE pc' = "left" /\ UNCHANGED <<exit_code, printed>>
    /\ UNCHANGED <<uvvars, args, i, parsed, runtime>>

(***************************************************************************)
(* Lines 109-117: both cameras are constructed and started, the frame      *)
(* size is taken from the left camera.                                     *)
(***************************************************************************)
StartLeft ==
    /\ pc = "left"
    /\ left' = "started"
    /\ pc' = "right"
    /\ UNCHANGED <<uvvars, args, i, parsed, exit_code, printed, right, img_width,
                   fs_opened, maps, Q, bm, sgbm, var, key, frames, remap_maps,
                   reproject_Q, matched>>

StartRight ==
    /\ pc = "right"
    /\ right' = "started"
    /\ pc' = "img"
    /\ UNCHANGED <<uvvars, args, i, parsed, exit_code, printed, left, img_width,
                   fs_opened, maps, Q, bm, sgbm, var, key, frames, remap_maps,
                   reproject_Q, matched>>

AllocImages ==
    /\ pc = "img"
    /\ \E w \in Widths : img_width' = w
    /\ pc' = "intrinsics"
    /\ UNCHANGED <<uvvars, args, i, parsed, exit_code, printed, left, right,
                   fs_opened, maps, Q, bm, sgbm, var, key, frames, remap_maps,
                   reproject_Q, matched>>

(***************************************************************************)
(* Lines 124-162: calibration load and the one-time rectification maps.    *)
(* Whether a file opens is the file system's choice.                       *)
(***************************************************************************)
OpenIntrinsics ==
    /\ pc = "intrinsics"
    /\ IF intrinsic_filename # NULL
       THEN \E isOpened \in BOOLEAN :
               IF ~isOpened
               THEN Return(-1, <<"failed to open file">>) /\ UNCHANGED fs_opened
               ELSE /\ fs_opened' = fs_opened + 1
                    /\ pc' = "extrinsics"
                    /\ UNCHANGED <<exit_code, printed>>
       ELSE pc' = "config" /\ UNCHANGED <<exit_code, printed, fs_opened>>
    /\ UNCHANGED <<uvvars, args, i, parsed, left, right, img_width, maps, Q, bm, sgbm,
                   var, key, frames, remap_maps, reproject_Q, matched>>

OpenExtrinsics ==
    /\ pc = "extrinsics"
    /\ \E isOpened \in BOOLEAN :
          IF ~isOpened
          THEN Return(-1, <<"failed to open file">>) /\ UNCHANGED fs_opened
          ELSE /\ fs_opened' = fs_opened + 1
               /\ pc' = "rectify"
               /\ UNCHANGED <<exit_code, printed>>
    /\ UNCHANGED <<uvvars, args, i, parsed, left, right, img_width, maps, Q, bm, sgbm,
                   var, key, frames, remap_maps, reproject_Q, matched>>

Rectify ==
    /\ pc = "rectify"
    /\ Q' = "computed"
    /\ maps' = "computed"
    /\ pc' = "config"
    /\ UNCHANGED <<uvvars, args, i, parsed, exit_code, printed, left, right, img_width,
                   fs_opened, bm, sgbm, var, key, frames, remap_maps,
                   reproject_Q, matched>>

(***************************************************************************)
(* Lines 164-206: the matcher objects are configured from the flags.       *)
(***************************************************************************)
DefaultDisparities(width) == AndMinus16((width \div 8) + 15)

BmWindow(w) == IF w > 0 THEN w ELSE 9

\* slip: the semi-global matcher always gets its default window
SgbmWindowIgnoresFlag(w) == 3

SgbmWindow(w) == IF w > 0 THEN w ELSE 3

ConfigureMatchers ==
    /\ pc = "config"
    /\ numberOfDisparities' = IF numberOfDisparities > 0
                              THEN numberOfDisparities
                              ELSE DefaultDisparities(img_width)
    /\ bm' = [SADWindowSize |-> BmWindow(SADWindowSize),
              numberOfDisparities |-> numberOfDisparities']
    /\ LET w == SgbmWindow(SADWindowSize)
       IN  sgbm' = [SADWindowSize |-> w,
                    numberOfDisparities |-> numberOfDisparities',
                    P1 |-> 8 * CV_8UC3_channels * w * w,
                    P2 |-> 32 * CV_8UC3_channels * w * w,
                    fullDP |-> (alg = STEREO_HH)]
    /\ var' = [minDisp |-> 0 - numberOfDisparities', maxDisp |-> 0]
    /\ pc' = "waitkey"
    /\ UNCHANGED <<uvvars, args, i, alg, SADWindowSize, no_display, intrinsic_filename,
                   extrinsic_filename, disparity_filename,
                   point_cloud_filename, exit_code, printed, left, right,
                   img_width, fs_opened, maps, Q, key, frames, remap_maps,
                   reproject_Q, matched>>

(***************************************************************************)
(* Lines 215-281: the frame loop.                                          *)
(***************************************************************************)
\* the loop condition: escape leaves the loop and main returns 0
WaitKey ==
    /\ pc = "waitkey"
    /\ \E k \in {KEY_ESC, -1} :
          /\ k = -1 => frames < MaxFrames
          /\ key' = k
          /\ IF k = KEY_ESC
             THEN pc' = "exit" /\ exit_code' = 0
             ELSE pc' = "capture" /\ UNCHANGED exit_code
    /\ UNCHANGED <<uvvars, args, i, parsed, printed, left, right, img_width,
                   fs_opened, maps, Q, bm, sgbm, var, frames, remap_maps,
                   reproject_Q, matched>>

CaptureFrames ==
    /\ pc = "capture"
    /\ frames' = frames + 1
    /\ pc' = "remap"
    /\ UNCHANGED <<uvvars, args, i, parsed, exit_code, printed, left, right, img_width,
                   fs_opened, maps, Q, bm, sgbm, var, key, remap_maps,
                   reproject_Q, matched>>

\* remap is called with map11 .. map22 as they are; what the library does
\* with maps that were never computed is the library's choice
RemapFrames ==
    /\ pc = "remap"
    /\ remap_maps' = maps
    /\ IF maps = "computed"
       THEN pc' = "match"
       ELSE \E raised \in BOOLEAN : pc' = IF raised THEN "aborted" ELSE "match"
    /\ UNCHANGED <<uvvars, args, i, parsed, exit_code, printed, left, right, img_width,
                   fs_opened, maps, Q, bm, sgbm, var, key, frames,
                   reproject_Q, matched>>

MatcherOf(a) ==
    IF a = STEREO_BM THEN "bm"
    ELSE IF a = STEREO_VAR THEN "var"
    ELSE IF a = STEREO_SGBM \/ a = STEREO_HH THEN "sgbm"
    ELSE "none"

Match ==
    /\ pc = "match"
    /\ matched' = MatcherOf(alg)
    /\ pc' = "reproject"
    /\ UNCHANGED <<uvvars, args, i, parsed, exit_code, printed, left, right, img_width,
                   fs_opened, maps, Q, bm, sgbm, var, key, frames, remap_maps,
                   reproject_Q>>

Reproject ==
    /\ pc = "reproject"
    /\ reproject_Q' = Q
    /\ IF Q = "computed"
       THEN pc' = "show"
       ELSE \E raised \in BOOLEAN : pc' = IF raised THEN "aborted" ELSE "show"
    /\ UNCHANGED <<uvvars, args, i, parsed, exit_code, printed, left, right, img_width,
                   fs_opened, maps, Q, bm, sgbm, var, key, frames, remap_maps,
                   matched>>

Show ==
    /\ pc = "show"
    /\ pc' = "waitkey"
    /\ UNCHANGED <<uvvars, args, i, parsed, exit_code, printed, runtime>>

Next ==
    \/ CheckArgc
    \/ ParseAlgorithm
    \/ ParseMaxDisparity
    \/ ParseBlockSize
    \/ ParseNoDisplay
    \/ ParseIntrinsic
    \/ ParseExtrinsic
    \/ ParseDisparityFile
    \/ ParsePointCloudFile
    \/ ParseUnknown
    \/ LoopDone
    \/ CheckCalibFlags
    \/ CheckPointCloud
    \/ StartLeft
    \/ StartRight
    \/ AllocImages
    \/ OpenIntrinsics
    \/ OpenExtrinsics
    \/ Rectify
    \/ ConfigureMatchers
    \/ WaitKey
    \/ CaptureFrames
    \/ RemapFrames
    \/ Match
    \/ Reproject
    \/ Show

Spec == Init /\ [][Next]_vars

(***************************************************************************)
(* UVCamera: start() opens the device and launches the polling thread      *)
(* running update(); captureColor() copies the protected buffer out.       *)
(* The store and the copy take one step per cell.                          *)
(***************************************************************************)
InitUV ==
    /\ args = <<>>
    /\ InitMain
    /\ InitUVCamera

start ==
    /\ _capture = "closed"
    /\ _capture' = "opened"
    /\ upc' = "read"
    /\ UNCHANGED <<mainvars, _buffer, _mutex, frame, polls, cpc, buffer, cell>>

\* update(): read one frame; a failed read skips the store
UpdateRead ==
    /\ upc = "read"
    /\ polls < MaxPolls
    /\ polls' = polls + 1
    /\ \E ok \in BOOLEAN :
          IF ok
          THEN frame' = FrameOf(polls') /\ upc' = "lock"
          ELSE UNCHANGED frame /\ upc' = "sleep"
    /\ UNCHANGED <<mainvars, _capture, _buffer, _mutex, cpc, buffer, cell>>

MutexFree == _mutex = "free"

UpdateLock ==
    /\ upc = "lock"
    /\ MutexFree
    /\ _mutex' = "update"
    /\ cell' = [cell EXCEPT !.update = 1]
    /\ upc' = "store"
    /\ UNCHANGED <<mainvars, _capture, _buffer, frame, polls, cpc, buffer>>

UpdateStore ==
    /\ upc = "store"
    /\ _buffer' = [_buffer EXCEPT ![cell.update] = frame[cell.update]]
    /\ IF cell.update < FrameLen
       THEN cell' = [cell EXCEPT !.update = cell.update + 1] /\ UNCHANGED upc
       ELSE upc' = "unlock" /\ UNCHANGED cell
    /\ UNCHANGED <<mainvars, _capture, _mutex, frame, polls, cpc, buffer>>

UpdateUnlock ==
    /\ upc = "unlock"
    /\ _mutex' = "free"
    /\ upc' = "sleep"
    /\ UNCHANGED <<mainvars, _capture, _buffer, frame, polls, cpc, buffer, cell>>

UpdateSleep ==
    /\ upc = "sleep"
    /\ upc' = "read"
    /\ UNCHANGED <<mainvars, _capture, _buffer, _mutex, frame, polls, cpc,
                   buffer, cell>>

\* slip: captureColor copies without waiting for the lock
CaptureLockNoWait ==
    /\ _capture = "opened"
    /\ cpc = "idle"
    /\ _mutex' = "captureColor"
    /\ cell' = [cell EXCEPT !.captureColor = 1]
    /\ cpc' = "copy"
    /\ UNCHANGED <<mainvars, _capture, _buffer, upc, frame, polls, buffer>>

CaptureLock ==
    /\ _capture = "opened"
    /\ cpc = "idle"
    /\ MutexFree
    /\ _mutex' = "captureColor"
    /\ cell' = [cell EXCEPT !.captureColor = 1]
    /\ cpc' = "copy"
    /\ UNCHANGED <<mainvars, _capture, _buffer, upc, frame, polls, buffer>>

CaptureCopy ==
    /\ cpc = "copy"
    /\ buffer' = [buffer EXCEPT ![cell.captureColor] = _buffer[cell.captureColor]]
    /\ IF cell.captureColor < FrameLen
       THEN cell' = [cell EXCEPT !.captureColor = cell.captureColor + 1] /\ UNCHANGED cpc
       ELSE cpc' = "unlock" /\ UNCHANGED cell
    /\ UNCHANGED <<mainvars, _capture, _buffer, _mutex, upc, frame, polls>>

CaptureUnlock ==
    /\ cpc = "unlock"
    /\ _mutex' = "free"
    /\ cpc' = "idle"
    /\ UNCHANGED <<mainvars, _capture, _buffer, upc, frame, polls, buffer, cell>>

NextUV ==
    \/ start
    \/ UpdateRead
    \/ UpdateLock
    \/ UpdateStore
    \/ UpdateUnlock
    \/ UpdateSleep
    \/ CaptureLock
    \/ CaptureCopy
    \/ CaptureUnlock

SpecUV == InitUV /\ [][NextUV]_vars

\* a frame written by one poll step (or the initial, empty buffer)
Whole(f) == \A c \in 1 .. FrameLen : f[c] = f[1]

(***************************************************************************)
(* Vocabulary of the properties: what a command line contains, read off    *)
(* the argument list alone.                                                *)
(***************************************************************************)
ValueFlags == {opt_i, opt_e, opt_o, opt_p}

\* the positions of a command line that hold an option (not an option's value)
RECURSIVE OptionPositions(_, _)
OptionPositions(a, n) ==
    IF n > Len(a) THEN {}
    ELSE {n} \cup OptionPositions(a, IF a[n] \in ValueFlags THEN n + 2 ELSE n + 1)

Options(a) == OptionPositions(a, 1)

HasFlag(a, flag) == \E n \in Options(a) : a[n] = flag

WithPrefix(a, opt) == {n \in Options(a) : strncmp_eq(a[n], opt)}

\* a decimal numeral and its value
IsNumeral(s) == s # <<>> /\ \A n \in 1 .. Len(s) : IsDigit(s[n])

NumeralValue(s) == ScanDigits(s, 0, 0).v

ValidMaxDisparity(s) ==
    IsNumeral(s) /\ NumeralValue(s) > 0 /\ NumeralValue(s) % 16 = 0

ValidBlockSize(s) ==
    IsNumeral(s) /\ NumeralValue(s) > 0 /\ NumeralValue(s) % 2 = 1

HasInvalidMaxDisparity(a) ==
    \E n \in WithPrefix(a, maxdisp_opt) :
        ~ValidMaxDisparity(SkipPrefix(a[n], maxdisp_opt))

HasInvalidBlockSize(a) ==
    \E n \in WithPrefix(a, blocksize_opt) :
        ~ValidBlockSize(SkipPrefix(a[n], blocksize_opt))

HasUnknownAlgorithm(a) ==
    \E n \in WithPrefix(a, algorithm_opt) :
        SkipPrefix(a[n], algorithm_opt) \notin {str_bm, str_sgbm, str_hh, str_var}

HasUnknownOption(a) ==
    \E n \in Options(a) :
        /\ a[n] \notin ValueFlags \cup {nodisplay_opt}
        /\ \A opt \in {algorithm_opt, maxdisp_opt, blocksize_opt, scale_opt} :
              ~strncmp_eq(a[n], opt)

ExactlyOneCalibrationFlag(a) == HasFlag(a, opt_i) # HasFlag(a, opt_e)

PointCloudWithoutCalibration(a) ==
    HasFlag(a, opt_p) /\ ~(HasFlag(a, opt_i) /\ HasFlag(a, opt_e))

HasParameterError(a) ==
    \/ HasUnknownAlgorithm(a)
    \/ HasInvalidMaxDisparity(a)
    \/ HasInvalidBlockSize(a)
    \/ HasUnknownOption(a)
    \/ ExactlyOneCalibrationFlag(a)
    \/ PointCloudWithoutCalibration(a)

\* positions of main before any camera exists
BeforeCameras == {"start", "loop", "check_calib", "check_pcl", "exit"}

NoCameraStarted == left = "none" /\ right = "none"

Exited(code) == pc = "exit" /\ exit_code = code

OpenFailed == pc = "exit" /\ "failed to open file" \in {printed[n] : n \in DOMAIN printed}

\* the matchers are configured: validation passed and lines 164-206 ran
Configured ==
    \/ pc \in {"waitkey", "capture", "remap", "match", "reproject", "show", "aborted"}
    \/ pc = "exit" /\ key = KEY_ESC

Last(S) == CHOOSE n \in S : \A m \in S : m <= n

Scenario ==
    <<algorithm_opt \o str_sgbm, maxdisp_opt \o digits_64,
      blocksize_opt \o digits_9>> \o Calibrated

(***************************************************************************)
(* C1: a command line with a --max-disparity value that is not a positive  *)
(* integer divisible by 16 prints an error and exits with -1, whatever     *)
(* else it contains; the max-disparity error is printed for no other       *)
(* command line.                                                           *)
(***************************************************************************)
C1_InvalidMaxDisparityExitsMinus1 ==
    /\ HasInvalidMaxDisparity(args) =>
          /\ pc \in BeforeCameras
          /\ pc = "exit" => exit_code = -1 /\ printed # <<"help">>
    /\ (\E n \in DOMAIN printed :
           printed[n] = "max disparity must be a positive integer divisible by 16")
          => HasInvalidMaxDisparity(args)

(***************************************************************************)
(* C2: a command line with exactly one of -i and -e exits with -1 and      *)
(* never reaches camera start; with both or neither the flag check passes. *)
(***************************************************************************)
C2_OneCalibrationFlagExitsMinus1 ==
    /\ ExactlyOneCalibrationFlag(args) =>
          /\ pc \in BeforeCameras
          /\ NoCameraStarted
          /\ pc = "exit" => exit_code = -1
    /\ ~ExactlyOneCalibrationFlag(args) =>
          \A n \in DOMAIN printed :
              printed[n] # "either both intrinsic and extrinsic parameters or none"

(***************************************************************************)
(* C3: when a calibration file cannot be opened the program exits with a   *)
(* non-zero code and no camera has been started.                           *)
(***************************************************************************)
C3_OpenFailureBeforeCameraStart ==
    OpenFailed => exit_code # 0 /\ NoCameraStarted

(***************************************************************************)
(* C4: every parameter error of the command line ends the run during       *)
(* argument parsing with a message and exit code -1, with no camera        *)
(* started, no calibration file opened and no frame captured.              *)
(***************************************************************************)
C4_ParameterErrorNoPartialRun ==
    HasParameterError(args) =>
        /\ pc \in BeforeCameras
        /\ NoCameraStarted /\ fs_opened = 0 /\ frames = 0
        /\ pc = "exit" => exit_code = -1 /\ printed # <<>> /\ printed # <<"help">>

(***************************************************************************)
(* C5: two positional placeholders followed by valid flags parse without   *)
(* a parameter error: the run never exits with -1 during parsing.          *)
(***************************************************************************)
C5_PositionalPlaceholdersAccepted ==
    ( /\ Len(args) >= 2
      /\ args[1] = left_image /\ args[2] = right_image
      /\ ~HasParameterError(SubSeq(args, 3, Len(args))) )
    => ~(Exited(-1) /\ ~OpenFailed)

(***************************************************************************)
(* C6: -p without both -i and -e exits with -1 before any camera starts.   *)
(***************************************************************************)
C6_PointCloudNeedsCalibration ==
    PointCloudWithoutCalibration(args) =>
        /\ pc \in BeforeCameras
        /\ NoCameraStarted
        /\ pc = "exit" => exit_code = -1

(***************************************************************************)
(* C7: a command line with a --blocksize value that is not a positive odd  *)
(* integer prints an error and exits with -1, wherever the flag stands;    *)
(* the block-size error is printed for no other command line.              *)
(***************************************************************************)
C7_InvalidBlockSizeExitsMinus1 ==
    /\ HasInvalidBlockSize(args) =>
          /\ pc \in BeforeCameras
          /\ pc = "exit" => exit_code = -1 /\ printed # <<"help">>
    /\ (\E n \in DOMAIN printed :
           printed[n] = "block size must be a positive odd number")
          => HasInvalidBlockSize(args)

(***************************************************************************)
(* C8: once validation has passed, the matcher configuration equals the    *)
(* flags parsed from the command line: the algorithm is the one named by   *)
(* the (last) --algorithm option, SGBM without one; numberOfDisparities of *)
(* every matcher is the (last) --max-disparity value; SADWindowSize of the *)
(* selected block or semi-global matcher is the (last) --blocksize value;  *)
(* the matcher run on a frame is the selected one.  The documented         *)
(* scenario never ends in a parameter error.                               *)
(***************************************************************************)
NamedAlgorithm(a) ==
    IF WithPrefix(a, algorithm_opt) = {} THEN STEREO_SGBM
    ELSE LET name == SkipPrefix(a[Last(WithPrefix(a, algorithm_opt))], algorithm_opt)
         IN  CHOOSE c \in {STEREO_BM, STEREO_SGBM, STEREO_HH, STEREO_VAR} :
                name = <<str_bm, str_sgbm, str_hh, str_var>>[c + 1]

FlagValue(a, opt) == sscanf_d(SkipPrefix(a[Last(WithPrefix(a, opt))], opt)).val

C8_ConfigurationEqualsFlags ==
    /\ Configured =>
          /\ alg = NamedAlgorithm(args)
          /\ sgbm.fullDP = (NamedAlgorithm(args) = STEREO_HH)
          /\ matched \in {"none", MatcherOf(NamedAlgorithm(args))}
          /\ WithPrefix(args, maxdisp_opt) # {} =>
                /\ numberOfDisparities = FlagValue(args, maxdisp_opt)
                /\ bm.numberOfDisparities = FlagValue(args, maxdisp_opt)
                /\ sgbm.numberOfDisparities = FlagValue(args, maxdisp_opt)
                /\ var.minDisp = 0 - FlagValue(args, maxdisp_opt)
          /\ WithPrefix(args, blocksize_opt) # {} =>
                /\ alg = STEREO_BM => bm.SADWindowSize = FlagValue(args, blocksize_opt)
                /\ alg \in {STEREO_SGBM, STEREO_HH} =>
                      sgbm.SADWindowSize = FlagValue(args, blocksize_opt)
    /\ args = Scenario =>
          /\ pc = "exit" => OpenFailed \/ Exited(0)
          /\ pc = "rectify" => alg = STEREO_SGBM /\ numberOfDisparities = 64
                               /\ SADWindowSize = 9

\* the documented scenario has run the semi-global matcher on a rectified frame
C8_Witness ==
    /\ args = Scenario
    /\ pc = "show"
    /\ matched = "sgbm"
    /\ sgbm.numberOfDisparities = 64
    /\ sgbm.SADWindowSize = 9
    /\ remap_maps = "computed"

(***************************************************************************)
(* C9: the store of update() and the copy of captureColor() never overlap, *)
(* and every frame captureColor returns is a whole frame of one poll step. *)
(***************************************************************************)
C9_NoTornFrame ==
    /\ ~(upc \in {"store", "unlock"} /\ cpc \in {"copy", "unlock"})
    /\ cpc \in {"idle", "unlock"} => Whole(buffer)

\* captureColor has returned frame 1 whole while the poll thread, having
\* stored frame 2 since, is storing another one: the returned frame is stale
C9_Witness ==
    /\ cpc = "idle"
    /\ buffer = FrameOf(1)
    /\ upc = "store"
    /\ cell.update = 2
    /\ _buffer[2] = 2

(***************************************************************************)
(* C10: the frame loop only remaps with rectification maps, and only       *)
(* reprojects with a matrix Q, that were computed from the calibration.    *)
(***************************************************************************)
C10_FrameLoopUsesComputedMaps ==
    /\ remap_maps # "empty"
    /\ reproject_Q # "empty"

====
